---- MODULE Spec2Model ----
(***************************************************************************)
(* Model of the Leneda data-synchronisation coordinator                    *)
(* (custom_components/leneda/coordinator.py).                              *)
(*                                                                         *)
(* Time is counted in whole hours since STATISTICS_PERIOD_START            *)
(* (2000-01-01 00:00 UTC).  An hourly statistics row that starts at hour h *)
(* ends at hour h + 1.  Values are naturals (non-negative consumption);    *)
(* floating point rounding is not modelled.                                *)
(*                                                                         *)
(* Text is modelled as sequences of one-character strings so that          *)
(* _create_statistic_id can be computed character by character.            *)
(***************************************************************************)
EXTENDS Integers, Sequences, FiniteSets, TLC

(* ------------------------------ bounds -------------------------------- *)

\* number of consecutive hour buckets the remote service may hold data for
MaxPoints == 3
\* greatest value of one hourly point
MaxValue == 1
\* the clock stops advancing at this hour
MaxNow == 52

(* ------------------------ program constants --------------------------- *)

\* const.py: STATISTICS_PERIOD_START, the origin of the time axis
STATISTICS_PERIOD_START == 0
\* timedelta(days=1) in hours
Day == 24
\* duration of one row of the hourly statistics table, in hours
Hour == 1
\* hours in the year 2000, the year every modelled clock value lies in
HoursPerYear == 8784
\* const.py: DOMAIN
LENEDA_DOMAIN == <<"l", "e", "n", "e", "d", "a">>

\* first hour bucket the remote service may hold data for
FirstHour == STATISTICS_PERIOD_START + Day

\* Python None where a number is expected; every number modelled is >= 0
None == -1

(* ------------------------------- text --------------------------------- *)

UpperCase ==
  <<"A", "B", "C", "D", "E", "F", "G", "H", "I", "J", "K", "L", "M",
    "N", "O", "P", "Q", "R", "S", "T", "U", "V", "W", "X", "Y", "Z">>

LowerCase ==
  <<"a", "b", "c", "d", "e", "f", "g", "h", "i", "j", "k", "l", "m",
    "n", "o", "p", "q", "r", "s", "t", "u", "v", "w", "x", "y", "z">>

Digits == {"0", "1", "2", "3", "4", "5", "6", "7", "8", "9"}

\* str.lower() on one character
lower_char(c) ==
  IF \E i \in 1..Len(UpperCase) : UpperCase[i] = c
  THEN LowerCase[CHOOSE i \in 1..Len(UpperCase) : UpperCase[i] = c]
  ELSE c

\* str.lower()
lower(s) == [i \in 1..Len(s) |-> lower_char(s[i])]

\* the substitution with the pattern [^a-z0-9:], which keeps a colon
re_sub_keep_colon(s) ==
  [i \in 1..Len(s) |->
     IF \/ s[i] \in Digits
        \/ s[i] = ":"
        \/ \E j \in 1..Len(LowerCase) : LowerCase[j] = s[i]
     THEN s[i] ELSE "_"]

\* re.sub(r"[^a-z0-9]", "_", s)
re_sub(s) ==
  [i \in 1..Len(s) |->
     IF s[i] \in Digits \/ (\E j \in 1..Len(LowerCase) : LowerCase[j] = s[i])
     THEN s[i] ELSE "_"]

\* coordinator.py: _create_statistic_id
create_statistic_id(metering_point, obis) ==
  LET clean_mp == re_sub(lower(metering_point))
      clean_obis == re_sub(lower(obis))
  IN LENEDA_DOMAIN \o <<":">> \o clean_mp \o <<"_">> \o clean_obis

(* --------------------------- configuration ---------------------------- *)

\* leneda.obis_codes.ObisCode values of the catalog entries in use
ELEC_CONSUMPTION_ACTIVE == <<"1", "-", "1", ":", "1", ".", "2", "9", ".", "0">>
ELEC_PRODUCTION_ACTIVE == <<"1", "-", "1", ":", "2", ".", "2", "9", ".", "0">>

\* const.py: SENSOR_TYPES (the entries the modelled configuration selects)
SENSOR_TYPES ==
  [s \in {"electricity_consumption_active", "electricity_production_active"} |->
     IF s = "electricity_consumption_active"
     THEN [obis_code |-> ELEC_CONSUMPTION_ACTIVE]
     ELSE [obis_code |-> ELEC_PRODUCTION_ACTIVE]]

MP1 == <<"L", "U", "1">>
MP2 == <<"L", "U", "2">>

\* config_entry.subentries.values(): the data of each subentry, in order
Subentries ==
  << [metering_point |-> MP1,
      sensors |-> <<"electricity_consumption_active">>],
     [metering_point |-> MP2,
      sensors |-> <<"gas_unknown", "electricity_production_active">>] >>

\* position of a key in an insertion-ordered dict, 0 when absent
KeyIndex(d, k) ==
  IF \E i \in 1..Len(d) : d[i].metering_point = k
  THEN CHOOSE i \in 1..Len(d) : d[i].metering_point = k
  ELSE 0

RECURSIVE initialize_metering_points(_, _)
\* coordinator.py: _initialize_metering_points; the dict is a sequence of
\* items in insertion order, a repeated key overwrites the value in place
initialize_metering_points(subentries, acc) ==
  IF subentries = << >> THEN acc
  ELSE LET e == Head(subentries)
           i == KeyIndex(acc, e.metering_point)
       IN initialize_metering_points(
            Tail(subentries),
            IF i = 0 THEN Append(acc, e)
            ELSE [acc EXCEPT ![i] = e])

\* every (metering point, OBIS code) pair a configuration addresses
Channels(mps) ==
  UNION { { <<mps[i].metering_point, SENSOR_TYPES[mps[i].sensors[j]].obis_code>> :
              j \in { k \in 1..Len(mps[i].sensors) :
                        mps[i].sensors[k] \in DOMAIN SENSOR_TYPES } } :
          i \in 1..Len(mps) }

(* ---------------------- persistence collaborator ---------------------- *)

\* A stored series is the sequence of its rows [start, state, sum] in
\* ascending order of start, the order in which the recorder's queries
\* (ORDER BY start_ts) return them.

\* the greatest stored period-start of a series, None when it has no row
HighWaterMark(rows) ==
  IF rows = << >> THEN None ELSE rows[Len(rows)].start

\* recorder: import of one StatisticData; a row with the same start is
\* updated in place, any other start is inserted
import_statistic(rows, stat) ==
  LET Before(r) == r.start < stat.start
      After(r) == r.start > stat.start
  IN SelectSeq(rows, Before) \o <<stat>> \o SelectSeq(rows, After)

RECURSIVE async_add_external_statistics(_, _)
\* coordinator.py: _store_statistics -> async_add_external_statistics
async_add_external_statistics(rows, statistics) ==
  IF statistics = << >> THEN rows
  ELSE async_add_external_statistics(
         import_statistic(rows, Head(statistics)), Tail(statistics))

\* coordinator.py: _get_statistics_start_date -> get_last_statistics(hass, 1,
\* statistic_id, True, set()): the row with the greatest start, as a dict
get_last_statistics(st, statistic_id) ==
  LET rows == st[statistic_id]
  IN IF rows = << >> THEN << >>
     ELSE statistic_id :>
            << [start |-> rows[Len(rows)].start,
                end |-> rows[Len(rows)].start + Hour] >>

\* coordinator.py: _get_existing_statistics -> statistics_during_period(hass,
\* STATISTICS_PERIOD_START, None, {statistic_id}, "hour", None, {"sum"}):
\* every row from the period start on, oldest first, as a dict
statistics_during_period(st, statistic_id) ==
  LET InPeriod(r) == r.start >= STATISTICS_PERIOD_START
      rows == SelectSeq(st[statistic_id], InPeriod)
  IN IF rows = << >> THEN << >>
     ELSE statistic_id :>
            [i \in 1..Len(rows) |->
               [start |-> rows[i].start,
                end |-> rows[i].start + Hour,
                sum |-> rows[i].sum]]

(* -------------------------- remote service ---------------------------- *)

PointHours == FirstHour..(FirstHour + MaxPoints - 1)

Values == 0..MaxValue

RECURSIVE PointsFrom(_, _, _, _)
\* the points of one channel with start <= started_at < end, in time order
PointsFrom(series, h, start, end) ==
  IF h > FirstHour + MaxPoints - 1 THEN << >>
  ELSE (IF series[h] # None /\ start <= h /\ h < end
        THEN << [started_at |-> h, value |-> series[h]] >>
        ELSE << >>)
       \o PointsFrom(series, h + 1, start, end)

\* the total taken from the last point alone instead of summed
SumValuesLast(points) ==
  IF points = << >> THEN 0 ELSE points[Len(points)].value

RECURSIVE SumValues(_)
\* sum(float(pt.value) for pt in ...)
SumValues(points) ==
  IF points = << >> THEN 0
  ELSE Head(points).value + SumValues(Tail(points))

\* client.get_aggregated_metering_data(..., "Hour", "Accumulation")
get_hourly_data(series, start, end) ==
  PointsFrom(series, FirstHour, start, end)

\* client.get_aggregated_metering_data(..., "Infinite", "Accumulation"):
\* one point aggregating the whole range, none when the range holds no data
get_infinite_data(series, start, end) ==
  LET pts == PointsFrom(series, FirstHour, start, end)
  IN IF pts = << >> THEN << >>
     ELSE << [started_at |-> start, value |-> SumValues(pts)] >>

\* datetime(current_year, 1, 1)
YearStart(t) == (t \div HoursPerYear) * HoursPerYear

(* ------------------------ reconciliation engine ----------------------- *)

RECURSIVE prepare_loop_no_carry(_, _, _)
\* the loop with "last_sum += value" left out: every emitted sum is the
\* initial running sum plus the point's own value
prepare_loop_no_carry(time_series, last_stats_time, last_sum) ==
  IF time_series = << >> THEN << >>
  ELSE LET point == Head(time_series)
       IN IF last_stats_time # None /\ point.started_at <= last_stats_time
          THEN prepare_loop_no_carry(Tail(time_series), last_stats_time,
                                     last_sum)
          ELSE << [start |-> point.started_at,
                   state |-> point.value,
                   sum |-> last_sum + point.value] >>
               \o prepare_loop_no_carry(Tail(time_series), last_stats_time,
                                        last_sum)

RECURSIVE prepare_loop(_, _, _)
\* coordinator.py: _prepare_statistics, the loop over time_series
prepare_loop(time_series, last_stats_time, last_sum) ==
  IF time_series = << >> THEN << >>
  ELSE LET point == Head(time_series)
       IN IF last_stats_time # None /\ point.started_at <= last_stats_time
          THEN prepare_loop(Tail(time_series), last_stats_time, last_sum)
          ELSE << [start |-> point.started_at,
                   state |-> point.value,
                   sum |-> last_sum + point.value] >>
               \o prepare_loop(Tail(time_series), last_stats_time,
                               last_sum + point.value)

\* coordinator.py: _prepare_statistics, last_stats_time
last_stats_time_of(statistic_id, existing_stats) ==
  IF existing_stats # << >> /\ statistic_id \in DOMAIN existing_stats
  THEN existing_stats[statistic_id][1].end
  ELSE None

\* coordinator.py: _prepare_statistics, last_sum
last_sum_of(statistic_id, existing_stats) ==
  IF /\ existing_stats # << >>
     /\ statistic_id \in DOMAIN existing_stats
     /\ existing_stats[statistic_id][1].sum # None
  THEN existing_stats[statistic_id][1].sum
  ELSE 0

\* coordinator.py: _prepare_statistics
prepare_statistics(statistic_id, time_series, existing_stats) ==
  prepare_loop(time_series,
               last_stats_time_of(statistic_id, existing_stats),
               last_sum_of(statistic_id, existing_stats))

(* ----------------------- fetch window planner ------------------------- *)

\* coordinator.py: _get_statistics_start_date
get_statistics_start_date(st, statistic_id) ==
  LET last_stat == get_last_statistics(st, statistic_id)
  IN IF last_stat = << >> THEN STATISTICS_PERIOD_START
     ELSE last_stat[statistic_id][1].end

\* the skip test with the boundary instant included
skip_window_inclusive(start_date, end_date) == end_date - Day <= start_date

\* coordinator.py: _update_statistics, "no need to measure anything"
skip_window(start_date, end_date) == end_date - Day < start_date

\* coordinator.py: _update_statistics from its entry to its return: the
\* statistics it hands to _store_statistics at clock h, none when it skips,
\* when the fetch is empty or when every point is discarded
update_statistics(st, series, statistic_id, h) ==
  LET baseline == get_statistics_start_date(st, statistic_id)
  IN IF skip_window(baseline, h) THEN << >>
     ELSE LET result == get_hourly_data(series, baseline - Day, h)
          IN IF result = << >> THEN << >>
             ELSE prepare_statistics(statistic_id, result,
                                     statistics_during_period(st, statistic_id))

\* coordinator.py: _get_current_total at clock h
get_current_total(series, h) ==
  LET result == get_infinite_data(series, YearStart(h), h)
  IN IF result = << >> THEN None ELSE SumValues(result)

(* ------------------------------- state -------------------------------- *)

\* refresh ticks that may be in flight; the host runs them one at a time
\* (Spec), a re-entrant second tick is explored in SpecOverlap
Ticks == {1, 2}

\* leneda.exceptions raised by the client and not caught by the coordinator
UncaughtExceptions == {"ForbiddenException", "MeteringPointNotFoundException"}

VARIABLES
  now,              \* the wall clock, in hours
  remote,           \* remote service: channel -> hour -> value or None
  metering_points,  \* self.metering_points, items in insertion order
  store,            \* recorder: statistic_id -> stored rows
  pc,               \* per tick: where the coroutine is suspended
  mpi,              \* per tick: index of the metering point being processed
  si,               \* per tick: index of the sensor type being processed
  data,             \* per tick: _async_update_data, data
  meter_data,       \* per tick: _process_metering_point, meter_data["values"]
  start_date,       \* per tick: _update_statistics, start_date
  end_date,         \* per tick: _update_statistics, end_date
  time_series,      \* per tick: result.aggregated_time_series
  existing_stats,   \* per tick: _process_and_store_statistics, stats
  outcome,          \* per tick: how the last _async_update_data call ended
  returned,         \* per tick: the map it returned, empty unless it returned
  calls,            \* per tick: the append calls made so far in this tick
  trace,            \* per tick: the collaborator calls made so far
  overlapped,       \* the tick started last began while another was running
  exposed,          \* DataUpdateCoordinator.data: none, or the one map readers see
  late,             \* channels with a late point not yet followed by a fetch
  id_call,          \* the last call of _create_statistic_id: arguments, result
  config_entries,   \* hass.config_entries of the domain: energy id -> entry
  flows             \* the config and subentry flows in progress

vars == <<now, remote, metering_points, store, pc, mpi, si, data, meter_data,
          start_date, end_date, time_series, existing_stats, outcome,
          returned, calls, trace, overlapped, exposed, late, id_call,
          config_entries, flows>>

env == <<now, remote, metering_points>>

\* what the setup wizard and the identity function work on
setup == <<id_call, config_entries, flows>>

\* what the host keeps between refreshes
host == <<exposed, late, setup>>

locals == <<start_date, end_date, time_series, existing_stats>>

\* the locals of _update_statistics once it has returned
ResetLocals(t) ==
  /\ start_date' = [start_date EXCEPT ![t] = STATISTICS_PERIOD_START]
  /\ end_date' = [end_date EXCEPT ![t] = STATISTICS_PERIOD_START]
  /\ time_series' = [time_series EXCEPT ![t] = << >>]
  /\ existing_stats' = [existing_stats EXCEPT ![t] = << >>]

\* the frames of _async_update_data and its callees once an exception
\* has left them
ResetFrame(t) ==
  /\ mpi' = [mpi EXCEPT ![t] = 1]
  /\ si' = [si EXCEPT ![t] = 1]
  /\ data' = [data EXCEPT ![t] = << >>]
  /\ meter_data' = [meter_data EXCEPT ![t] = << >>]
  /\ ResetLocals(t)

\* the item of self.metering_points tick t is processing
CurMP(t) == metering_points[mpi[t]]

\* the sensor type tick t is processing
CurSensor(t) == CurMP(t).sensors[si[t]]

\* obis = cfg["obis_code"]
CurObis(t) == SENSOR_TYPES[CurSensor(t)].obis_code

\* the channel tick t is processing
CurChannel(t) == <<CurMP(t).metering_point, CurObis(t)>>

\* every channel a configuration can name: a metering point and an OBIS
\* code of the catalog
AllChannels ==
  {MP1, MP2} \X { SENSOR_TYPES[k].obis_code : k \in DOMAIN SENSOR_TYPES }

\* _create_statistic_id(metering_point, obis) for every channel, computed
\* once
statistic_ids == [c \in AllChannels |-> create_statistic_id(c[1], c[2])]

\* statistic_id = _create_statistic_id(metering_point, obis)
CurId(t) == statistic_ids[CurChannel(t)]

\* the statistic ids of a configuration
StatIds(mps) == { create_statistic_id(c[1], c[2]) : c \in Channels(mps) }

\* one entry of the call trace: the collaborator call, the channel it is
\* made for and the exception it raised ("" when it returned)
Call(op, t, raised) ==
  [op |-> op, metering_point |-> CurMP(t).metering_point,
   obis |-> CurObis(t), raised |-> raised]

\* the flows the wizard may have in progress at once
FlowIds == {1, 2}

\* no flow in progress
NoFlow == [handler |-> "none"]

\* the single config entry the coordinator is constructed for
Installation(subentries) ==
  "E1" :> [api_token |-> "t1", subentries |-> subentries]

\* the series the remote service may hold for one channel
RemoteSeries == [PointHours -> Values \cup {None}]

InitTicks ==
  /\ pc = [t \in Ticks |-> "idle"]
  /\ mpi = [t \in Ticks |-> 1]
  /\ si = [t \in Ticks |-> 1]
  /\ data = [t \in Ticks |-> << >>]
  /\ meter_data = [t \in Ticks |-> << >>]
  /\ start_date = [t \in Ticks |-> STATISTICS_PERIOD_START]
  /\ end_date = [t \in Ticks |-> STATISTICS_PERIOD_START]
  /\ time_series = [t \in Ticks |-> << >>]
  /\ existing_stats = [t \in Ticks |-> << >>]
  /\ outcome = [t \in Ticks |-> "none"]
  /\ returned = [t \in Ticks |-> << >>]
  /\ calls = [t \in Ticks |-> << >>]
  /\ trace = [t \in Ticks |-> << >>]
  /\ overlapped = FALSE
  /\ exposed = << >>
  /\ late = {}
  /\ id_call = << >>
  /\ flows = [f \in FlowIds |-> NoFlow]

\* coordinator.py: __init__; nothing is stored yet, every channel of the
\* remote service holds the same hourly series
Init ==
  /\ now = FirstHour - 1
  /\ config_entries = Installation(Subentries)
  /\ metering_points = initialize_metering_points(Subentries, << >>)
  /\ \E series \in RemoteSeries :
       remote = [c \in Channels(metering_points) |-> series]
  /\ store = [id \in StatIds(metering_points) |-> << >>]
  /\ InitTicks

(* ------------------------------ actions ------------------------------- *)

\* The hours at which the clock is read.  The remote data lies in the first
\* MaxPoints hours of a day: the point of hour p is first returned at hour
\* p + 1, and the skip test of a series whose last row is hour p changes
\* sides at hour p + 1 + Day.  At any other hour the coordinator sees
\* exactly what it sees at the read hour before it.
ReadHour(h) ==
  \/ h <= FirstHour + MaxPoints
  \/ (h - FirstHour) % Day \in 1..MaxPoints

\* time passes between two refreshes, up to the next hour the clock is read
\* at; a refresh completes within the hour it started in
Advance ==
  /\ \A t \in Ticks : pc[t] = "idle"
  /\ \E h \in (now + 1)..MaxNow :
       /\ ReadHour(h)
       /\ \A g \in (now + 1)..(h - 1) : ~ReadHour(g)
       /\ now' = h
  /\ UNCHANGED <<remote, metering_points, overlapped, host, store, pc, mpi, si,
                 data,
                 meter_data, locals, outcome, returned, calls, trace>>

\* coordinator.py: _async_update_data, entry: data = {}
StartTick(t) ==
  /\ pc[t] = "idle"
  /\ pc' = [pc EXCEPT ![t] = "loop"]
  /\ mpi' = [mpi EXCEPT ![t] = 1]
  /\ si' = [si EXCEPT ![t] = 1]
  /\ data' = [data EXCEPT ![t] = << >>]
  /\ meter_data' = [meter_data EXCEPT ![t] = << >>]
  /\ outcome' = [outcome EXCEPT ![t] = "none"]
  /\ returned' = [returned EXCEPT ![t] = << >>]
  /\ calls' = [calls EXCEPT ![t] = << >>]
  /\ trace' = [trace EXCEPT ![t] = << >>]
  /\ overlapped' = (\E u \in Ticks \ {t} : pc[u] \notin {"idle", "done"})
  /\ UNCHANGED <<env, host, store, locals>>

\* the return statement indented into the loop over the metering points:
\* the map is returned once the first metering point is done
ReturnDataEarly(t) ==
  /\ pc[t] = "loop"
  /\ mpi[t] > 1
  /\ pc' = [pc EXCEPT ![t] = "done"]
  /\ outcome' = [outcome EXCEPT ![t] = "returned"]
  /\ returned' = [returned EXCEPT ![t] = data[t]]
  /\ mpi' = [mpi EXCEPT ![t] = 1]
  /\ data' = [data EXCEPT ![t] = << >>]
  /\ UNCHANGED <<env, overlapped, host, store, si, meter_data, locals, calls,
                 trace>>

\* coordinator.py: _async_update_data, the loop is exhausted: return data
ReturnData(t) ==
  /\ pc[t] = "loop"
  /\ mpi[t] > Len(metering_points)
  /\ pc' = [pc EXCEPT ![t] = "done"]
  /\ outcome' = [outcome EXCEPT ![t] = "returned"]
  /\ returned' = [returned EXCEPT ![t] = data[t]]
  /\ mpi' = [mpi EXCEPT ![t] = 1]
  /\ data' = [data EXCEPT ![t] = << >>]
  /\ UNCHANGED <<env, overlapped, host, store, si, meter_data, locals, calls, trace>>

\* coordinator.py: _process_metering_point returns meter_data and
\* _async_update_data stores it under data[metering_point]
FinishMeteringPoint(t) ==
  /\ pc[t] = "loop"
  /\ mpi[t] <= Len(metering_points)
  /\ si[t] > Len(CurMP(t).sensors)
  /\ data' = [data EXCEPT ![t] =
                (CurMP(t).metering_point :> [values |-> meter_data[t]]) @@ @]
  /\ meter_data' = [meter_data EXCEPT ![t] = << >>]
  /\ mpi' = [mpi EXCEPT ![t] = @ + 1]
  /\ si' = [si EXCEPT ![t] = 1]
  /\ UNCHANGED <<env, overlapped, host, store, pc, locals, outcome, returned, calls, trace>>

\* the lookup cfg["obis_code"] made without the "if not cfg" test: a sensor
\* type that is not in the catalog raises KeyError and ends the tick
UnknownSensorFatal(t) ==
  /\ pc[t] = "loop"
  /\ mpi[t] <= Len(metering_points)
  /\ si[t] <= Len(CurMP(t).sensors)
  /\ CurSensor(t) \notin DOMAIN SENSOR_TYPES
  /\ pc' = [pc EXCEPT ![t] = "done"]
  /\ outcome' = [outcome EXCEPT ![t] = "KeyError"]
  /\ returned' = [returned EXCEPT ![t] = << >>]
  /\ ResetFrame(t)
  /\ UNCHANGED <<env, overlapped, host, store, calls, trace>>

\* coordinator.py: _process_metering_point, "if not cfg: ... continue"
UnknownSensor(t) ==
  /\ pc[t] = "loop"
  /\ mpi[t] <= Len(metering_points)
  /\ si[t] <= Len(CurMP(t).sensors)
  /\ CurSensor(t) \notin DOMAIN SENSOR_TYPES
  /\ si' = [si EXCEPT ![t] = @ + 1]
  /\ UNCHANGED <<env, overlapped, host, store, pc, mpi, data, meter_data, locals, outcome,
                 returned, calls, trace>>

\* _update_statistics without the "no need to measure anything" test: the
\* window is fetched whatever the start date
PlanWindowNoSkip(t) ==
  /\ pc[t] = "loop"
  /\ mpi[t] <= Len(metering_points)
  /\ si[t] <= Len(CurMP(t).sensors)
  /\ CurSensor(t) \in DOMAIN SENSOR_TYPES
  /\ start_date' = [start_date EXCEPT ![t] =
                      get_statistics_start_date(store, CurId(t)) - Day]
  /\ end_date' = [end_date EXCEPT ![t] = now]
  /\ pc' = [pc EXCEPT ![t] = "fetch"]
  /\ trace' = [trace EXCEPT ![t] = Append(@, Call("get_last_statistics", t, ""))]
  /\ UNCHANGED <<env, overlapped, host, store, mpi, si, data, meter_data,
                 time_series, existing_stats, outcome, returned, calls>>

\* _process_metering_point taking the skip of the window as the end of the
\* channel: no live total is fetched for a skipped channel
PlanWindowSkipTotal(t) ==
  /\ pc[t] = "loop"
  /\ mpi[t] <= Len(metering_points)
  /\ si[t] <= Len(CurMP(t).sensors)
  /\ CurSensor(t) \in DOMAIN SENSOR_TYPES
  /\ LET baseline == get_statistics_start_date(store, CurId(t))
     IN IF skip_window(baseline, now)
        THEN /\ ResetLocals(t)
             /\ si' = [si EXCEPT ![t] = @ + 1]
             /\ UNCHANGED pc
        ELSE /\ start_date' = [start_date EXCEPT ![t] = baseline - Day]
             /\ end_date' = [end_date EXCEPT ![t] = now]
             /\ pc' = [pc EXCEPT ![t] = "fetch"]
             /\ UNCHANGED <<si, time_series, existing_stats>>
  /\ trace' = [trace EXCEPT ![t] = Append(@, Call("get_last_statistics", t, ""))]
  /\ UNCHANGED <<env, overlapped, host, store, mpi, data, meter_data, outcome,
                 returned, calls>>

\* coordinator.py: _update_statistics up to the first remote call: read the
\* last stored row, take the clock, skip or set the window
PlanWindow(t) ==
  /\ pc[t] = "loop"
  /\ mpi[t] <= Len(metering_points)
  /\ si[t] <= Len(CurMP(t).sensors)
  /\ CurSensor(t) \in DOMAIN SENSOR_TYPES
  /\ LET baseline == get_statistics_start_date(store, CurId(t))
     IN IF skip_window(baseline, now)
        THEN /\ ResetLocals(t)
             /\ pc' = [pc EXCEPT ![t] = "total"]
        ELSE /\ start_date' = [start_date EXCEPT ![t] = baseline - Day]
             /\ end_date' = [end_date EXCEPT ![t] = now]
             /\ pc' = [pc EXCEPT ![t] = "fetch"]
             /\ UNCHANGED <<time_series, existing_stats>>
  /\ trace' = [trace EXCEPT ![t] = Append(@, Call("get_last_statistics", t, ""))]
  /\ UNCHANGED <<env, overlapped, host, store, mpi, si, data, meter_data, outcome, returned,
                 calls>>

\* _update_statistics without the "if not result.aggregated_time_series"
\* test: an empty series goes on to the reconciliation
FetchHourlyAlwaysRead(t) ==
  /\ pc[t] = "fetch"
  /\ time_series' = [time_series EXCEPT ![t] =
                       get_hourly_data(remote[CurChannel(t)],
                                       start_date[t], end_date[t])]
  /\ pc' = [pc EXCEPT ![t] = "read"]
  /\ trace' = [trace EXCEPT ![t] = Append(@, Call("fetch_hourly", t, ""))]
  /\ UNCHANGED <<env, overlapped, host, store, mpi, si, data, meter_data,
                 start_date, end_date, existing_stats, outcome, returned,
                 calls>>

\* coordinator.py: _fetch_hourly_data returns; an empty series ends
\* _update_statistics
FetchHourly(t) ==
  /\ pc[t] = "fetch"
  /\ LET result == get_hourly_data(remote[CurChannel(t)],
                                   start_date[t], end_date[t])
     IN IF result = << >>
        THEN /\ ResetLocals(t)
             /\ pc' = [pc EXCEPT ![t] = "total"]
        ELSE /\ time_series' = [time_series EXCEPT ![t] = result]
             /\ pc' = [pc EXCEPT ![t] = "read"]
             /\ UNCHANGED <<start_date, end_date, existing_stats>>
  /\ trace' = [trace EXCEPT ![t] = Append(@, Call("fetch_hourly", t, ""))]
  /\ UNCHANGED <<env, overlapped, host, store, mpi, si, data, meter_data, outcome, returned,
                 calls>>

\* an UnauthorizedException handled like an unknown sensor type: logged,
\* the channel skipped, the loop continued
RaiseAuthFailedContinue(t, op) ==
  /\ pc' = [pc EXCEPT ![t] = "loop"]
  /\ si' = [si EXCEPT ![t] = @ + 1]
  /\ trace' = [trace EXCEPT ![t] =
                 Append(@, Call(op, t, "UnauthorizedException"))]
  /\ ResetLocals(t)
  /\ UNCHANGED <<env, overlapped, host, store, mpi, data, meter_data, outcome,
                 returned, calls>>

\* coordinator.py: _async_update_data, "except UnauthorizedException":
\* raise ConfigEntryAuthFailed
RaiseAuthFailed(t, op) ==
  /\ pc' = [pc EXCEPT ![t] = "done"]
  /\ outcome' = [outcome EXCEPT ![t] = "ConfigEntryAuthFailed"]
  /\ returned' = [returned EXCEPT ![t] = << >>]
  /\ trace' = [trace EXCEPT ![t] =
                 Append(@, Call(op, t, "UnauthorizedException"))]
  /\ ResetFrame(t)
  /\ UNCHANGED <<env, overlapped, host, store, calls>>

\* any other exception of the client leaves _async_update_data uncaught
RaiseUncaught(t, op, exc) ==
  /\ pc' = [pc EXCEPT ![t] = "done"]
  /\ outcome' = [outcome EXCEPT ![t] = exc]
  /\ returned' = [returned EXCEPT ![t] = << >>]
  /\ trace' = [trace EXCEPT ![t] = Append(@, Call(op, t, exc))]
  /\ ResetFrame(t)
  /\ UNCHANGED <<env, overlapped, host, store, calls>>

\* the hourly fetch raises UnauthorizedException
FetchHourlyUnauthorized(t) ==
  /\ pc[t] = "fetch"
  /\ RaiseAuthFailed(t, "fetch_hourly")

\* the hourly fetch raises ForbiddenException or a not-found exception
FetchHourlyForbidden(t) ==
  /\ pc[t] = "fetch"
  /\ \E exc \in UncaughtExceptions : RaiseUncaught(t, "fetch_hourly", exc)

\* coordinator.py: _get_existing_statistics returns
GetExistingStatistics(t) ==
  /\ pc[t] = "read"
  /\ existing_stats' = [existing_stats EXCEPT ![t] =
                          statistics_during_period(store, CurId(t))]
  /\ pc' = [pc EXCEPT ![t] = "store"]
  /\ trace' = [trace EXCEPT ![t] =
                 Append(@, Call("statistics_during_period", t, ""))]
  /\ UNCHANGED <<env, overlapped, host, store, mpi, si, data, meter_data, start_date, end_date,
                 time_series, outcome, returned, calls>>

\* coordinator.py: _process_and_store_statistics after the read:
\* _prepare_statistics, then _store_statistics "if statistics"
PrepareAndStore(t) ==
  /\ pc[t] = "store"
  /\ LET statistics == prepare_statistics(CurId(t), time_series[t],
                                          existing_stats[t])
     IN IF statistics # << >>
        THEN /\ store' = [store EXCEPT ![CurId(t)] =
                            async_add_external_statistics(@, statistics)]
             /\ calls' = [calls EXCEPT ![t] =
                            Append(@, [statistic_id |-> CurId(t),
                                       channel |-> CurChannel(t),
                                       statistics |-> statistics,
                                       high_water |->
                                         HighWaterMark(store[CurId(t)])])]
             /\ trace' = [trace EXCEPT ![t] =
                            Append(@, Call("add_external_statistics", t, ""))]
        ELSE UNCHANGED <<store, calls, trace>>
  /\ pc' = [pc EXCEPT ![t] = "total"]
  /\ ResetLocals(t)
  /\ UNCHANGED <<env, overlapped, host, mpi, si, data, meter_data, outcome, returned>>

\* _process_metering_point leaving the live-total fetch to a background
\* task: the loop goes on to the next sensor type before the call is made
GetCurrentTotalDeferred(t) ==
  /\ pc[t] = "total"
  /\ LET current_total == get_current_total(remote[CurChannel(t)], now)
     IN meter_data' = [meter_data EXCEPT ![t] =
                         (CurObis(t) :> current_total) @@ @]
  /\ si' = [si EXCEPT ![t] = @ + 1]
  /\ pc' = [pc EXCEPT ![t] = "loop"]
  /\ UNCHANGED <<env, overlapped, host, store, mpi, data, locals, outcome,
                 returned, calls, trace>>

\* _process_metering_point reusing the value of the previous map: the live
\* total is fetched only for a channel the previous map has no number for
GetCurrentTotalCached(t) ==
  /\ pc[t] = "total"
  /\ LET mp == CurMP(t).metering_point
         cached == /\ exposed # << >>
                   /\ mp \in DOMAIN exposed[1]
                   /\ CurObis(t) \in DOMAIN exposed[1][mp].values
                   /\ exposed[1][mp].values[CurObis(t)] # None
         current_total == IF cached THEN exposed[1][mp].values[CurObis(t)]
                          ELSE get_current_total(remote[CurChannel(t)], now)
     IN meter_data' = [meter_data EXCEPT ![t] =
                         (CurObis(t) :> current_total) @@ @]
  /\ si' = [si EXCEPT ![t] = @ + 1]
  /\ pc' = [pc EXCEPT ![t] = "loop"]
  /\ trace' = [trace EXCEPT ![t] = Append(@, Call("fetch_total", t, ""))]
  /\ UNCHANGED <<env, overlapped, host, store, mpi, data, locals, outcome,
                 returned, calls>>

\* coordinator.py: _get_current_total returns and _process_metering_point
\* stores it under meter_data["values"][obis]
GetCurrentTotal(t) ==
  /\ pc[t] = "total"
  /\ LET current_total == get_current_total(remote[CurChannel(t)], now)
     IN meter_data' = [meter_data EXCEPT ![t] =
                         (CurObis(t) :> current_total) @@ @]
  /\ si' = [si EXCEPT ![t] = @ + 1]
  /\ pc' = [pc EXCEPT ![t] = "loop"]
  /\ trace' = [trace EXCEPT ![t] = Append(@, Call("fetch_total", t, ""))]
  /\ UNCHANGED <<env, overlapped, host, store, mpi, data, locals, outcome, returned, calls>>

\* the live-total fetch raises UnauthorizedException
GetCurrentTotalUnauthorized(t) ==
  /\ pc[t] = "total"
  /\ RaiseAuthFailed(t, "fetch_total")

\* the live-total fetch raises ForbiddenException or a not-found exception
GetCurrentTotalForbidden(t) ==
  /\ pc[t] = "total"
  /\ \E exc \in UncaughtExceptions : RaiseUncaught(t, "fetch_total", exc)

\* the channels tick t has fetched hourly data for
Fetched(t) ==
  { <<trace[t][k].metering_point, trace[t][k].obis>> :
      k \in { j \in 1..Len(trace[t]) :
                /\ trace[t][j].op = "fetch_hourly"
                /\ trace[t][j].raised = "" } }

\* the host has taken the result or the exception of the finished call;
\* the coordinator is ready for the next refresh
TakeResult(t) ==
  /\ pc[t] = "done"
  /\ pc' = [pc EXCEPT ![t] = "idle"]
  /\ late' = IF outcome[t] = "returned" THEN late \ Fetched(t) ELSE late
  /\ outcome' = [outcome EXCEPT ![t] = "none"]
  /\ returned' = [returned EXCEPT ![t] = << >>]
  /\ calls' = [calls EXCEPT ![t] = << >>]
  /\ trace' = [trace EXCEPT ![t] = << >>]
  /\ UNCHANGED <<env, overlapped, setup, store, mpi, si, data, meter_data,
                 locals>>

\* the end of a refresh seen from the coordinator: what the host does with
\* the result is left out
FinishRefresh(t) ==
  /\ TakeResult(t)
  /\ UNCHANGED exposed

\* the end of a refresh seen by the readers: a returned map replaces
\* coordinator.data as a whole, an exception leaves it as it was
ExposeResult(t) ==
  /\ TakeResult(t)
  /\ exposed' = IF outcome[t] = "returned" THEN << returned[t] >> ELSE exposed

\* one step of refresh tick t once it has started
TickRun(t) ==
  \/ FinishRefresh(t)
  \/ ReturnData(t)
  \/ FinishMeteringPoint(t)
  \/ UnknownSensor(t)
  \/ PlanWindow(t)
  \/ FetchHourly(t)
  \/ FetchHourlyUnauthorized(t)
  \/ FetchHourlyForbidden(t)
  \/ GetExistingStatistics(t)
  \/ PrepareAndStore(t)
  \/ GetCurrentTotal(t)
  \/ GetCurrentTotalUnauthorized(t)
  \/ GetCurrentTotalForbidden(t)

\* one step of refresh tick t
TickStep(t) ==
  \/ StartTick(t)
  \/ TickRun(t)

\* the host runs one refresh at a time
Next ==
  \/ Advance
  \/ TickStep(1)

Spec == Init /\ [][Next]_vars

(* --------------------- re-entrant refresh ticks ----------------------- *)

\* one metering point, one unknown and one known sensor type
SubentriesOverlap ==
  << [metering_point |-> MP1,
      sensors |-> <<"gas_unknown", "electricity_consumption_active">>] >>

InitOverlap ==
  /\ now = FirstHour - 1
  /\ config_entries = Installation(SubentriesOverlap)
  /\ metering_points = initialize_metering_points(SubentriesOverlap, << >>)
  /\ \E series \in RemoteSeries :
       remote = [c \in Channels(metering_points) |-> series]
  /\ store = [id \in StatIds(metering_points) |-> << >>]
  /\ InitTicks

\* a stray second refresh starts while the first is suspended
StartStrayTick ==
  /\ pc[1] \notin {"idle", "done"}
  /\ StartTick(2)

NextOverlap ==
  \/ Advance
  \/ TickStep(1)
  \/ StartStrayTick
  \/ TickRun(2)

SpecOverlap == InitOverlap /\ [][NextOverlap]_vars

(* ------------------- refresh ticks without failures ------------------- *)

\* one step, before its end, of a tick in which no call of the client raises
TickOkBody(t) ==
  \/ ReturnData(t)
  \/ FinishMeteringPoint(t)
  \/ UnknownSensor(t)
  \/ PlanWindow(t)
  \/ FetchHourly(t)
  \/ GetExistingStatistics(t)
  \/ PrepareAndStore(t)
  \/ GetCurrentTotal(t)

\* one step of a started tick in which no call of the client raises
TickOk(t) ==
  \/ FinishRefresh(t)
  \/ TickOkBody(t)

NextOk ==
  \/ Advance
  \/ StartTick(1)
  \/ TickOk(1)

\* refreshes in which no call of the client raises
SpecOk == Init /\ [][NextOk]_vars

\* const.py: SCAN_INTERVAL: the host starts a refresh every hour and runs
\* it to its end, and time goes on between the refreshes; the configuration
\* is the single metering point of InitOverlap
SpecLive ==
  /\ InitOverlap
  /\ [][NextOk]_vars
  /\ SF_vars(Advance)
  /\ WF_vars(StartTick(1) \/ TickOk(1))

(* ------------------- what the readers of the map see ------------------ *)

\* refreshes that complete or that an authentication failure aborts, with
\* the host keeping the returned map for the readers
NextReaders ==
  \/ Advance
  \/ StartTick(1)
  \/ TickOkBody(1)
  \/ FetchHourlyUnauthorized(1)
  \/ GetCurrentTotalUnauthorized(1)
  \/ ExposeResult(1)

SpecReaders == Init /\ [][NextReaders]_vars

(* -------------------------- cancelled refreshes ------------------------ *)

\* the host cancels the refresh while it is suspended in an await (the
\* executor jobs of the recorder reads, the calls of the client):
\* CancelledError is raised there and leaves _async_update_data
Cancel(t) ==
  /\ \/ pc[t] \in {"fetch", "read", "total"}
     \/ /\ pc[t] = "loop"
        /\ mpi[t] <= Len(metering_points)
        /\ si[t] <= Len(CurMP(t).sensors)
        /\ CurSensor(t) \in DOMAIN SENSOR_TYPES
  /\ pc' = [pc EXCEPT ![t] = "done"]
  /\ outcome' = [outcome EXCEPT ![t] = "CancelledError"]
  /\ returned' = [returned EXCEPT ![t] = << >>]
  /\ ResetFrame(t)
  /\ UNCHANGED <<env, overlapped, host, store, calls, trace>>

NextCancel ==
  \/ Next
  \/ Cancel(1)

SpecCancel == Init /\ [][NextCancel]_vars

(* ----------------------- late-arriving remote data --------------------- *)

\* the remote service publishes or corrects, between two refreshes, the
\* point of an hour that lies within one day before the end of the last
\* stored row of the channel's series
PublishLate ==
  /\ \A t \in Ticks : pc[t] = "idle"
  /\ late = {}
  /\ \E c \in Channels(metering_points), h \in PointHours, v \in Values :
       LET rows == store[create_statistic_id(c[1], c[2])]
           last_end == HighWaterMark(rows) + Hour
       IN /\ rows # << >>
          /\ last_end - Day <= h
          /\ h < last_end
          /\ remote[c][h] # v
          /\ remote' = [remote EXCEPT ![c][h] = v]
          /\ late' = {c}
  /\ UNCHANGED <<now, metering_points, overlapped, exposed, setup, store, pc,
                 mpi, si, data, meter_data, locals, outcome, returned, calls,
                 trace>>

NextLate ==
  \/ Advance
  \/ StartTick(1)
  \/ TickOk(1)
  \/ PublishLate

\* refreshes without failures over a remote service that publishes late;
\* the configuration is the single metering point of InitOverlap
SpecLate == InitOverlap /\ [][NextLate]_vars

(* ------------------------- statistic identity ------------------------- *)

\* greatest length of a text given to _create_statistic_id
MaxIdLen == 2

\* the characters the texts are made of: an upper-case and a lower-case
\* letter, a digit, and the separators of an OBIS code and of the identity
IdAlphabet == {"L", "l", "1", "-", ":", "_"}

\* the texts of at most MaxIdLen characters
IdStrings == UNION { [1..k -> IdAlphabet] : k \in 0..MaxIdLen }

\* the OBIS codes of the catalog
CatalogCodes == { SENSOR_TYPES[k].obis_code : k \in DOMAIN SENSOR_TYPES }

\* before the integration is set up: no config entry, no coordinator
InitSetup ==
  /\ now = FirstHour - 1
  /\ config_entries = << >>
  /\ metering_points = << >>
  /\ remote = << >>
  /\ store = << >>
  /\ InitTicks

\* coordinator.py: the call of _create_statistic_id on one pair of texts
CreateStatisticId ==
  /\ id_call = << >>
  /\ \E metering_point \in IdStrings, obis \in IdStrings \cup CatalogCodes :
       id_call' = << [metering_point |-> metering_point,
                      obis |-> obis,
                      statistic_id |->
                        create_statistic_id(metering_point, obis)] >>
  /\ UNCHANGED <<env, overlapped, exposed, late, config_entries, flows, store,
                 pc, mpi, si, data, meter_data, locals, outcome, returned,
                 calls, trace>>

\* the identity function called on an arbitrary pair of texts
SpecIdentity == InitSetup /\ [][CreateStatisticId]_vars

(* ---------------------------- setup wizard ---------------------------- *)

\* the energy ids (accounts) a user may enter
EnergyIds == {"E1", "E2"}

\* the API tokens a user may enter
ApiTokens == {"t1", "t2"}

\* leneda.models.AuthenticationProbeResult
ProbeResults == {"SUCCESS", "FAILURE", "UNKNOWN"}

\* what a user may type into the metering point field: blanks, an
\* identifier, the same with blanks around it, the same in lower case
MeteringPointInputs ==
  { <<" ">>, <<"L", "1">>, <<" ", "L", "1", " ">>, <<"l", "1">> }

\* what a user may tick in the sensor selection: nothing, one, two
SensorSelections ==
  { << >>,
    <<"electricity_consumption_active">>,
    <<"electricity_consumption_active", "electricity_production_active">> }

\* what client.get_supported_obis_codes may return
SupportedObisCodes ==
  { << >>, <<ELEC_CONSUMPTION_ACTIVE>>,
    <<ELEC_CONSUMPTION_ACTIVE, ELEC_PRODUCTION_ACTIVE>> }

\* str.strip()
strip(s) ==
  LET kept == { i \in 1..Len(s) : s[i] # " " }
  IN IF kept = {} THEN << >>
     ELSE SubSeq(s, CHOOSE i \in kept : \A j \in kept : i <= j,
                    CHOOSE i \in kept : \A j \in kept : j <= i)

\* the flow manager: a flow is in progress until it aborts or creates
InProgress(f) ==
  /\ flows[f].handler # "none"
  /\ flows[f].type \notin {"abort", "create_entry"}

\* flow f shows the form or menu of a step and waits for the user
Shows(f, handler, type, step_id) ==
  /\ flows[f].handler = handler
  /\ flows[f].type = type
  /\ flows[f].step_id = step_id

\* the frame of the other variables in a wizard step
WizardFrame ==
  UNCHANGED <<env, overlapped, exposed, late, id_call, store, pc, mpi, si,
              data, meter_data, locals, outcome, returned, calls, trace>>

\* config_flow.py: LenedaConfigFlow.__init__, then async_step_user(None)
StartUserFlow(f) ==
  /\ ~InProgress(f)
  /\ flows' = [flows EXCEPT ![f] =
                 [handler |-> "config", source |-> "user", entry |-> "",
                  unique_id |-> "", type |-> "form", step_id |-> "user",
                  errors |-> "", reason |-> "", api_token |-> "",
                  energy_id |-> "", probe |-> ""]]
  /\ UNCHANGED config_entries
  /\ WizardFrame

\* async_set_unique_id: another flow of the handler in progress holds the
\* unique id
AlreadyInProgress(f, unique_id) ==
  \E g \in FlowIds \ {f} :
    /\ InProgress(g)
    /\ flows[g].handler = "config"
    /\ flows[g].unique_id = unique_id

\* the mistaken test "== SUCCESS" for "!= FAILURE"
probe_accepted_success_only(result) == result = "SUCCESS"

\* config_flow.py: credentials_probe_result != AuthenticationProbeResult.FAILURE
probe_accepted(result) == result # "FAILURE"

\* config_flow.py: async_step_user(user_input); result is what
\* client.probe_credentials() returns or raises
SubmitUser(f) ==
  /\ Shows(f, "config", "form", "user")
  /\ \E api_token \in ApiTokens, energy_id \in EnergyIds,
        result \in ProbeResults \cup {"ForbiddenException"} :
       IF AlreadyInProgress(f, energy_id)
       THEN /\ flows' = [flows EXCEPT ![f] =
                           [@ EXCEPT !.type = "abort",
                                     !.reason = "already_in_progress",
                                     !.errors = "", !.probe = ""]]
            /\ UNCHANGED config_entries
       ELSE IF energy_id \in DOMAIN config_entries
       THEN /\ flows' = [flows EXCEPT ![f] =
                           [@ EXCEPT !.unique_id = energy_id,
                                     !.type = "abort",
                                     !.reason = "already_configured",
                                     !.errors = "", !.probe = ""]]
            /\ UNCHANGED config_entries
       ELSE IF result = "ForbiddenException"
       THEN /\ flows' = [flows EXCEPT ![f] =
                           [@ EXCEPT !.unique_id = energy_id,
                                     !.api_token = api_token,
                                     !.energy_id = energy_id,
                                     !.errors = "forbidden",
                                     !.probe = result]]
            /\ UNCHANGED config_entries
       ELSE IF probe_accepted(result)
       THEN /\ flows' = [flows EXCEPT ![f] =
                           [@ EXCEPT !.unique_id = energy_id,
                                     !.api_token = api_token,
                                     !.energy_id = energy_id,
                                     !.type = "create_entry",
                                     !.errors = "", !.probe = result]]
            /\ config_entries' =
                 (energy_id :> [api_token |-> api_token,
                                subentries |-> << >>]) @@ config_entries
       ELSE /\ flows' = [flows EXCEPT ![f] =
                           [@ EXCEPT !.unique_id = energy_id,
                                     !.api_token = api_token,
                                     !.energy_id = energy_id,
                                     !.errors = "unauthorized",
                                     !.probe = result]]
            /\ UNCHANGED config_entries
  /\ WizardFrame

\* config_flow.py: async_step_reauth(entry_data), then
\* async_step_reauth_confirm(None); the host starts one reauthentication
\* per entry
StartReauth(f) ==
  /\ ~InProgress(f)
  /\ \E e \in DOMAIN config_entries :
       /\ ~AlreadyInProgress(f, e)
       /\ flows' = [flows EXCEPT ![f] =
                      [handler |-> "config", source |-> "reauth", entry |-> e,
                       unique_id |-> e, type |-> "form",
                       step_id |-> "reauth_confirm", errors |-> "",
                       reason |-> "", api_token |-> "", energy_id |-> e,
                       probe |-> ""]]
  /\ UNCHANGED config_entries
  /\ WizardFrame

\* config_flow.py: async_step_reauth_confirm(user_input)
SubmitReauth(f) ==
  /\ Shows(f, "config", "form", "reauth_confirm")
  /\ \E api_token \in ApiTokens,
        result \in ProbeResults \cup {"ForbiddenException"} :
       IF result = "ForbiddenException"
       THEN /\ flows' = [flows EXCEPT ![f] =
                           [@ EXCEPT !.api_token = api_token,
                                     !.errors = "forbidden",
                                     !.probe = result]]
            /\ UNCHANGED config_entries
       ELSE IF probe_accepted(result)
       THEN /\ flows' = [flows EXCEPT ![f] =
                           [@ EXCEPT !.api_token = api_token,
                                     !.type = "abort",
                                     !.reason = "reauth_successful",
                                     !.errors = "", !.probe = result]]
            /\ config_entries' =
                 [config_entries EXCEPT ![flows[f].entry].api_token = api_token]
       ELSE /\ flows' = [flows EXCEPT ![f] =
                           [@ EXCEPT !.api_token = api_token,
                                     !.errors = "unauthorized",
                                     !.probe = result]]
            /\ UNCHANGED config_entries
  /\ WizardFrame

\* one step of the config flow f
ConfigFlowStep(f) ==
  \/ StartUserFlow(f)
  \/ SubmitUser(f)
  \/ StartReauth(f)
  \/ SubmitReauth(f)

NextConfigFlow == \E f \in FlowIds : ConfigFlowStep(f)

\* the user and reauthentication flows of the integration, from a host
\* without any entry
SpecConfigFlow == InitSetup /\ [][NextConfigFlow]_vars

\* the subentries of every config entry of the domain, as <<entry, index>>
AllSubentries ==
  UNION { { <<e, i>> : i \in 1..Len(config_entries[e].subentries) } :
          e \in DOMAIN config_entries }

\* config_flow.py: LenedaSubEntryFlowHandler.__init__, then
\* async_step_user(None) -> async_step_init(None)
StartSubentryFlow(f) ==
  /\ ~InProgress(f)
  /\ \E e \in DOMAIN config_entries :
       flows' = [flows EXCEPT ![f] =
                   [handler |-> "subentry", source |-> "user", entry |-> e,
                    subentry |-> 0, type |-> "form", step_id |-> "init",
                    errors |-> "", reason |-> "", metering_point |-> << >>,
                    selected_sensors |-> << >>, probing_task |-> "none",
                    called |-> FALSE, submitted |-> << >>]]
  /\ UNCHANGED config_entries
  /\ WizardFrame

\* config_flow.py: async_step_init(user_input); response is what
\* client.get_aggregated_metering_data returns or raises
SubmitInit(f) ==
  /\ Shows(f, "subentry", "form", "init")
  /\ \E input \in MeteringPointInputs,
        response \in {"ok", "MeteringPointNotFoundException",
                      "ForbiddenException"} :
       LET metering_point == strip(input)
       IN IF metering_point = << >>
          THEN flows' = [flows EXCEPT ![f] =
                           [@ EXCEPT !.metering_point = metering_point,
                                     !.errors = "invalid_metering_point",
                                     !.called = FALSE]]
          ELSE IF \E s \in AllSubentries :
                    config_entries[s[1]].subentries[s[2]].metering_point =
                      metering_point
          THEN flows' = [flows EXCEPT ![f] =
                           [@ EXCEPT !.metering_point = metering_point,
                                     !.type = "abort",
                                     !.reason = "duplicate_metering_point",
                                     !.errors = "", !.called = FALSE]]
          ELSE IF response = "MeteringPointNotFoundException"
          THEN flows' = [flows EXCEPT ![f] =
                           [@ EXCEPT !.metering_point = metering_point,
                                     !.errors = "invalid_metering_point",
                                     !.called = TRUE]]
          ELSE IF response = "ok"
          THEN flows' = [flows EXCEPT ![f] =
                           [@ EXCEPT !.metering_point = metering_point,
                                     !.type = "menu",
                                     !.step_id = "setup_type",
                                     !.errors = "", !.called = TRUE]]
          ELSE \* the exception leaves the step; the form stays as shown
               flows' = [flows EXCEPT ![f] =
                           [@ EXCEPT !.metering_point = metering_point,
                                     !.called = TRUE]]
  /\ UNCHANGED config_entries
  /\ WizardFrame

\* config_flow.py: async_step_manual(None)
ShowManual(f) ==
  flows' = [flows EXCEPT ![f] =
              [@ EXCEPT !.type = "form", !.step_id = "manual",
                        !.errors = "", !.called = FALSE]]

\* the menu of async_step_setup_type, option "manual"
ChooseManual(f) ==
  /\ \/ Shows(f, "subentry", "menu", "setup_type")
     \/ Shows(f, "subentry", "menu", "probe_no_sensors")
  /\ ShowManual(f)
  /\ UNCHANGED config_entries
  /\ WizardFrame

\* the menu of async_step_setup_type, option "probe": async_step_probe
\* creates the task and shows the progress
ChooseProbe(f) ==
  /\ Shows(f, "subentry", "menu", "setup_type")
  /\ flows' = [flows EXCEPT ![f] =
                 [@ EXCEPT !.type = "progress", !.step_id = "probe",
                           !.probing_task = "running", !.called = TRUE]]
  /\ UNCHANGED config_entries
  /\ WizardFrame

\* the sensor types of the catalog that have one of the codes, in the order
\* of the codes
detected_sensors(codes) ==
  [i \in 1..Len(codes) |->
     CHOOSE s \in DOMAIN SENSOR_TYPES : SENSOR_TYPES[s].obis_code = codes[i]]

\* config_flow.py: async_step_probe once the task is done; raised is the
\* exception of client.get_supported_obis_codes, result what it returned
ProbeDone(f) ==
  /\ Shows(f, "subentry", "progress", "probe")
  /\ \E raised \in {"", "UnauthorizedException", "ForbiddenException"},
        result \in SupportedObisCodes :
       IF raised = "UnauthorizedException"
       THEN flows' = [flows EXCEPT ![f] =
                        [@ EXCEPT !.probing_task = "none",
                                  !.type = "abort",
                                  !.reason = "unauthorized",
                                  !.called = FALSE]]
       ELSE IF raised = "ForbiddenException"
       THEN flows' = [flows EXCEPT ![f] =
                        [@ EXCEPT !.probing_task = "none",
                                  !.type = "abort",
                                  !.reason = "forbidden",
                                  !.called = FALSE]]
       ELSE IF result = << >>
       THEN flows' = [flows EXCEPT ![f] =
                        [@ EXCEPT !.probing_task = "none",
                                  !.type = "progress_done",
                                  !.step_id = "probe_no_sensors",
                                  !.called = FALSE]]
       ELSE flows' = [flows EXCEPT ![f] =
                        [@ EXCEPT !.probing_task = "none",
                                  !.selected_sensors = detected_sensors(result),
                                  !.type = "progress_done",
                                  !.step_id = "manual",
                                  !.called = FALSE]]
  /\ UNCHANGED config_entries
  /\ WizardFrame

\* the flow manager after async_show_progress_done: the next step is
\* called without input: async_step_probe_no_sensors, async_step_manual
ProgressDone(f) ==
  /\ flows[f].handler = "subentry"
  /\ flows[f].type = "progress_done"
  /\ IF flows[f].step_id = "probe_no_sensors"
     THEN flows' = [flows EXCEPT ![f] = [@ EXCEPT !.type = "menu"]]
     ELSE ShowManual(f)
  /\ UNCHANGED config_entries
  /\ WizardFrame

\* async_step_finish, then the flow manager: the subentry is added to the
\* parent entry unless the entry holds a subentry with the unique id
async_step_finish(f, selected_sensors) ==
  LET e == flows[f].entry
      metering_point == flows[f].metering_point
  IN IF \E i \in 1..Len(config_entries[e].subentries) :
          config_entries[e].subentries[i].metering_point = metering_point
     THEN /\ flows' = [flows EXCEPT ![f] =
                         [@ EXCEPT !.selected_sensors = selected_sensors,
                                   !.submitted = selected_sensors,
                                   !.type = "abort",
                                   !.reason = "already_configured",
                                   !.errors = "", !.called = FALSE]]
          /\ UNCHANGED config_entries
     ELSE /\ flows' = [flows EXCEPT ![f] =
                         [@ EXCEPT !.selected_sensors = selected_sensors,
                                   !.submitted = selected_sensors,
                                   !.type = "create_entry",
                                   !.errors = "", !.called = FALSE]]
          /\ config_entries' =
               [config_entries EXCEPT ![e].subentries =
                  Append(@, [metering_point |-> metering_point,
                             sensors |-> selected_sensors])]

\* async_step_manual without the "if not selected_sensors" test
SubmitManualUnchecked(f) ==
  /\ Shows(f, "subentry", "form", "manual")
  /\ \E selected_sensors \in SensorSelections :
       async_step_finish(f, selected_sensors)
  /\ WizardFrame

\* config_flow.py: async_step_manual(user_input)
SubmitManual(f) ==
  /\ Shows(f, "subentry", "form", "manual")
  /\ \E selected_sensors \in SensorSelections :
       IF selected_sensors = << >>
       THEN /\ flows' = [flows EXCEPT ![f] =
                           [@ EXCEPT !.errors = "select_at_least_one",
                                     !.called = FALSE]]
            /\ UNCHANGED config_entries
       ELSE async_step_finish(f, selected_sensors)
  /\ WizardFrame

\* config_flow.py: async_step_reconfigure(None) ->
\* async_step_configure_sensors(None) for one subentry of an entry
StartReconfigure(f) ==
  /\ ~InProgress(f)
  /\ \E s \in AllSubentries :
       flows' = [flows EXCEPT ![f] =
                   [handler |-> "subentry", source |-> "reconfigure",
                    entry |-> s[1], subentry |-> s[2], type |-> "form",
                    step_id |-> "configure_sensors", errors |-> "",
                    reason |-> "",
                    metering_point |-> << >>, selected_sensors |-> << >>,
                    probing_task |-> "none", called |-> FALSE,
                    submitted |-> << >>]]
  /\ UNCHANGED config_entries
  /\ WizardFrame

\* config_flow.py: async_step_configure_sensors(user_input)
SubmitConfigureSensors(f) ==
  /\ Shows(f, "subentry", "form", "configure_sensors")
  /\ \E sensors \in SensorSelections :
       IF sensors = << >>
       THEN /\ flows' = [flows EXCEPT ![f] =
                           [@ EXCEPT !.errors = "select_at_least_one"]]
            /\ UNCHANGED config_entries
       ELSE /\ flows' = [flows EXCEPT ![f] =
                           [@ EXCEPT !.submitted = sensors,
                                     !.type = "abort",
                                     !.reason = "reconfigure_successful",
                                     !.errors = ""]]
            /\ config_entries' =
                 [config_entries EXCEPT
                    ![flows[f].entry].subentries[flows[f].subentry].sensors =
                      sensors]
  /\ WizardFrame

\* one step of the subentry flow f
SubentryFlowStep(f) ==
  \/ StartSubentryFlow(f)
  \/ SubmitInit(f)
  \/ ChooseManual(f)
  \/ ChooseProbe(f)
  \/ ProbeDone(f)
  \/ ProgressDone(f)
  \/ SubmitManual(f)
  \/ StartReconfigure(f)
  \/ SubmitConfigureSensors(f)

NextSubentryFlow == \E f \in FlowIds : SubentryFlowStep(f)

\* a host with the config entries of two accounts and no metering point
InitSubentryFlow ==
  /\ now = FirstHour - 1
  /\ config_entries = [e \in EnergyIds |->
                         [api_token |-> "t1", subentries |-> << >>]]
  /\ metering_points = << >>
  /\ remote = << >>
  /\ store = << >>
  /\ InitTicks

\* the metering-point subentry flows of the integration, several in
\* progress at once
SpecSubentryFlow == InitSubentryFlow /\ [][NextSubentryFlow]_vars

(* --------------------------- properties ------------------------------- *)

RECURSIVE SumStates(_, _)
\* the sum of the state values of the first n rows of a series
SumStates(rows, n) ==
  IF n = 0 THEN 0 ELSE rows[n].state + SumStates(rows, n - 1)

\* the statistic series invariant of the data model
SeriesConsistent(rows) ==
  /\ \A i \in 1..(Len(rows) - 1) :
       /\ rows[i].start < rows[i + 1].start
       /\ rows[i].sum <= rows[i + 1].sum
  /\ \A i \in 1..Len(rows) : rows[i].sum = SumStates(rows, i)

\* the cumulative sum of the most recent row, 0 for an empty series
LastSum(rows) == IF rows = << >> THEN 0 ELSE rows[Len(rows)].sum

\* the total of the remote values of a channel up to and including hour h
RemoteTotal(series, h) ==
  SumValues(PointsFrom(series, FirstHour, STATISTICS_PERIOD_START, h + 1))

\* C1: after any sequence of refresh ticks every stored series has strictly
\* increasing period-starts, non-decreasing cumulative sums, and each row's
\* cumulative sum is the sum of the states of the rows up to it.
C1_SeriesInvariant ==
  \A id \in DOMAIN store : SeriesConsistent(store[id])

\* the fetched points and the stored rows of a series, as one map from
\* period-start to value, a stored row taking precedence
UnionTotal(rows, points) ==
  LET hours == { rows[i].start : i \in 1..Len(rows) } \cup
               { points[i].started_at : i \in 1..Len(points) }
      RECURSIVE Total(_)
      Total(hs) ==
        IF hs = {} THEN 0
        ELSE LET h == CHOOSE x \in hs : TRUE
                 v == IF \E i \in 1..Len(rows) : rows[i].start = h
                      THEN rows[CHOOSE i \in 1..Len(rows) :
                                  rows[i].start = h].state
                      ELSE points[CHOOSE i \in 1..Len(points) :
                                    points[i].started_at = h].value
             IN v + Total(hs \ {h})
  IN Total(hours)

\* C2: reconciling a fetched sequence against the store, appending the
\* result, and reconciling the same sequence again emits nothing the second
\* time, and the last cumulative sum is the total of the deduplicated union
\* of stored and fetched points.
C2_ReconcileIdempotent ==
  \A t \in Ticks :
    pc[t] = "store" =>
      LET id == CurId(t)
          first == prepare_statistics(id, time_series[t],
                                      statistics_during_period(store, id))
          rows1 == async_add_external_statistics(store[id], first)
          store1 == [store EXCEPT ![id] = rows1]
          second == prepare_statistics(id, time_series[t],
                                       statistics_during_period(store1, id))
          rows2 == async_add_external_statistics(rows1, second)
      IN /\ second = << >>
         /\ SeriesConsistent(store[id]) =>
              LastSum(rows2) = UnionTotal(store[id], time_series[t])

\* C3: from one step to the next the cumulative sum of the most recent row
\* of a series never decreases, and it never exceeds the total of the remote
\* values up to that row (no remote point is counted twice).
C3_NeverRegressNorDoubleCount ==
  [][\A c \in Channels(metering_points) :
       LET id == create_statistic_id(c[1], c[2])
       IN /\ LastSum(store'[id]) >= LastSum(store[id])
          /\ LastSum(store'[id]) <=
               RemoteTotal(remote[c], HighWaterMark(store'[id]))]_vars

\* the entries of trace[t] at which the client raised UnauthorizedException
AuthFailures(t) ==
  { k \in 1..Len(trace[t]) : trace[t][k].raised = "UnauthorizedException" }

\* C4 (as stated): a tick in which a fetch failed with the
\* authentication-rejected error has appended no entries to any series.
C4_NoAppendInFailedTick ==
  \A t \in Ticks : AuthFailures(t) # {} => calls[t] = << >>

\* C4 (amended): after the fetch that failed with the authentication-rejected
\* error the tick appends nothing to any series, and what it appended before
\* the failure is still stored.
C4_NoAppendAfterAuthFailure ==
  \A t \in Ticks : \A k \in AuthFailures(t) :
    /\ \A j \in (k + 1)..Len(trace[t]) :
         trace[t][j].op # "add_external_statistics"
    /\ \A n \in 1..Len(calls[t]) : \A m \in 1..Len(calls[t][n].statistics) :
         \E i \in 1..Len(store[calls[t][n].statistic_id]) :
           store[calls[t][n].statistic_id][i].start =
             calls[t][n].statistics[m].start

\* an earlier channel appended entries, then a later fetch was rejected
C4_Witness ==
  /\ outcome[1] = "ConfigEntryAuthFailed"
  /\ calls[1] # << >>
  /\ AuthFailures(1) # {}

\* C5: the fetch that raises the authentication-rejected error is the last
\* collaborator call of the tick; the tick ends there with
\* ConfigEntryAuthFailed and without a result map.
C5_AuthFailureStopsTick ==
  \A t \in Ticks : \A k \in AuthFailures(t) :
    /\ k = Len(trace[t])
    /\ pc[t] = "done"
    /\ outcome[t] = "ConfigEntryAuthFailed"
    /\ returned[t] = << >>

\* the hourly fetch of the first channel was rejected while a second
\* metering point was still to be processed
C5_Witness ==
  /\ outcome[1] = "ConfigEntryAuthFailed"
  /\ Len(metering_points) > 1
  /\ trace[1] # << >>
  /\ trace[1][Len(trace[1])].metering_point = metering_points[1].metering_point
  /\ trace[1][Len(trace[1])].op = "fetch_hourly"

\* C6: a fetch that fails with an access-forbidden or not-found error does
\* not end the tick: the tick goes on and completes with a result map.
C6_ForbiddenIsContained ==
  \A t \in Ticks : \A k \in 1..Len(trace[t]) :
    trace[t][k].raised \in UncaughtExceptions =>
      /\ outcome[t] \notin UncaughtExceptions
      /\ pc[t] # "done" \/ outcome[t] = "returned"

\* C7: history is never rewritten: a row that is stored stays stored, with
\* the same period-start, state and cumulative sum, in every later state.
C7_NeverRewritesHistory ==
  [][\A id \in DOMAIN store : \A i \in 1..Len(store[id]) :
       \E j \in 1..Len(store'[id]) : store'[id][j] = store[id][i]]_vars

\* C8: every append call carries only entries whose period-start is greater
\* than the greatest period-start stored for the series when it is made.
C8_AppendAboveHighWaterMark ==
  \A t \in Ticks : \A n \in 1..Len(calls[t]) :
    \A m \in 1..Len(calls[t][n].statistics) :
      calls[t][n].statistics[m].start > calls[t][n].high_water

\* the end of the row with the greatest period-start, the tracked-history
\* start for an empty series
Baseline(rows) ==
  IF rows = << >> THEN STATISTICS_PERIOD_START
  ELSE LET starts == { rows[i].start : i \in 1..Len(rows) }
       IN (CHOOSE s \in starts : \A x \in starts : x <= s) + Hour

\* tick t has just planned the fetch window of its current channel
JustPlanned(t) ==
  /\ trace[t] # << >>
  /\ trace[t][Len(trace[t])].op = "get_last_statistics"

\* C9: the planner skips exactly when now - 1 day < baseline, and otherwise
\* the window is [baseline - 1 day, now).
C9_PlannerWindow ==
  \A t \in Ticks :
    JustPlanned(t) =>
      LET baseline == Baseline(store[CurId(t)])
      IN /\ pc[t] \in {"total", "fetch"}
         /\ pc[t] = "total" <=> now - Day < baseline
         /\ pc[t] = "fetch" =>
              /\ start_date[t] = baseline - Day
              /\ end_date[t] = now

\* a window was planned for a series that already holds rows
C9_Witness ==
  /\ JustPlanned(1)
  /\ pc[1] = "fetch"
  /\ store[CurId(1)] # << >>
  /\ start_date[1] = HighWaterMark(store[CurId(1)]) + Hour - Day

\* C10: after two overlapping ticks have both finished, every series has no
\* period-start twice, cumulative sums equal to the sums of the states, and
\* no remote point counted twice.
C10_OverlapDoesNotCorrupt ==
  (overlapped /\ \A t \in Ticks : pc[t] \in {"idle", "done"})
    => \A c \in Channels(metering_points) :
         LET id == create_statistic_id(c[1], c[2])
         IN /\ SeriesConsistent(store[id])
            /\ LastSum(store[id]) <=
                 RemoteTotal(remote[c], HighWaterMark(store[id]))

\* a complete result map: a key for every configured metering point, and
\* under it a value for every configured channel of the catalog
CompleteMap(m) ==
  /\ DOMAIN m = { metering_points[i].metering_point :
                    i \in 1..Len(metering_points) }
  /\ \A i \in 1..Len(metering_points) :
       DOMAIN m[metering_points[i].metering_point].values =
         { c[2] : c \in { x \in Channels(metering_points) :
                            x[1] = metering_points[i].metering_point } }

\* C11: at every point of every tick, also of a tick that an authentication
\* failure aborts, the map readers see is none at all (before the first
\* successful tick) or a complete map returned by a successful tick, never
\* the partly built map of the tick in progress.
C11_ReadersSeeCompleteMap ==
  exposed # << >> => CompleteMap(exposed[1])

\* readers hold the map of an earlier tick while the tick in progress has
\* built only a part of its own
C11_Witness ==
  /\ exposed # << >>
  /\ pc[1] \notin {"idle", "done"}
  /\ DOMAIN data[1] # {}
  /\ ~CompleteMap(data[1])

\* C12: once a tick has completed, invoking refresh again with the remote
\* data and the clock unchanged appends nothing to any series and yields the
\* result map the completed tick returned.
C12_RefreshIdempotent ==
  \A t \in Ticks :
    (pc[t] = "done" /\ outcome[t] = "returned") =>
      \A c \in Channels(metering_points) :
        /\ update_statistics(store, remote[c],
                             create_statistic_id(c[1], c[2]), now) = << >>
        /\ returned[t][c[1]].values[c[2]] = get_current_total(remote[c], now)

\* the series of channel c holds exactly one row for hour h
StoredOnce(c, h) ==
  LET rows == store[create_statistic_id(c[1], c[2])]
  IN Cardinality({ i \in 1..Len(rows) : rows[i].start = h }) = 1

\* C13: with ticks repeated, the clock advancing and no call failing, every
\* hourly point the remote holds is eventually stored, exactly once, and
\* stays stored: no hour the remote provides is missing for good.
C13_NoGaps ==
  <>[](\A c \in Channels(metering_points) : \A h \in PointHours :
         remote[c][h] # None => StoredOnce(c, h))

\* C14: once the remote has published or corrected a point within one day
\* before the last stored end of a series, the next tick that is not skipped
\* for the channel leaves the series correct: its last cumulative sum is the
\* total of the values the remote now reports.
C14_LookbackAbsorbsLateData ==
  \A t \in Ticks :
    (pc[t] = "done" /\ outcome[t] = "returned") =>
      \A c \in late \cap Fetched(t) :
        LastSum(store[create_statistic_id(c[1], c[2])]) =
          RemoteTotal(remote[c], now - Hour)

\* the fetched points whose start is after the cutoff, in order
Accepted(points, cutoff) ==
  LET Keep(p) == cutoff = None \/ p.started_at > cutoff
  IN SelectSeq(points, Keep)

RECURSIVE SumFirst(_, _)
\* the sum of the values of the first k points
SumFirst(points, k) ==
  IF k = 0 THEN 0 ELSE points[k].value + SumFirst(points, k - 1)

\* C15: in one reconciliation run the k-th emitted entry carries the k-th
\* accepted point: its start, its value as state, and as cumulative sum the
\* initial running sum plus the values of the first k accepted points; the
\* emitted sums are non-decreasing.
C15_RunningSums ==
  \A t \in Ticks :
    pc[t] = "store" =>
      LET id == CurId(t)
          initial == last_sum_of(id, existing_stats[t])
          accepted == Accepted(time_series[t],
                               last_stats_time_of(id, existing_stats[t]))
          statistics == prepare_statistics(id, time_series[t],
                                           existing_stats[t])
      IN /\ Len(statistics) = Len(accepted)
         /\ \A k \in 1..Len(statistics) :
              /\ statistics[k].start = accepted[k].started_at
              /\ statistics[k].state = accepted[k].value
              /\ statistics[k].sum = initial + SumFirst(accepted, k)
         /\ \A k \in 1..(Len(statistics) - 1) :
              statistics[k].sum <= statistics[k + 1].sum

\* a run that starts from a positive running sum, discards a fetched point
\* and emits an entry with a positive value
C15_Witness ==
  /\ pc[1] = "store"
  /\ last_sum_of(CurId(1), existing_stats[1]) > 0
  /\ LET statistics == prepare_statistics(CurId(1), time_series[1],
                                          existing_stats[1])
     IN /\ statistics # << >>
        /\ Len(statistics) < Len(time_series[1])
        /\ statistics[Len(statistics)].state > 0

\* the worked example of the reconciliation engine, values in units of 0.5:
\* 1.5 and 2.0 for two consecutive hours
ExamplePoints ==
  << [started_at |-> FirstHour, value |-> 3],
     [started_at |-> FirstHour + Hour, value |-> 4] >>

NoFailure(t) == \A k \in 1..Len(trace[t]) : trace[t][k].raised = ""

\* C17: a configured sensor type that is not in the catalog is skipped: every
\* collaborator call and every append of a tick is made for a catalogued
\* channel, and a tick in which no fetch fails ends by returning a map that
\* holds every metering point and exactly the catalogued channels, after a
\* live-total fetch for each of them.
C17_UnknownChannelSkipped ==
  \A t \in Ticks :
    /\ \A k \in 1..Len(trace[t]) :
         <<trace[t][k].metering_point, trace[t][k].obis>>
           \in Channels(metering_points)
    /\ \A n \in 1..Len(calls[t]) :
         calls[t][n].channel \in Channels(metering_points)
    /\ (pc[t] = "done" /\ NoFailure(t)) =>
         /\ outcome[t] = "returned"
         /\ CompleteMap(returned[t])
         /\ \A c \in Channels(metering_points) :
              \E k \in 1..Len(trace[t]) :
                /\ trace[t][k].op = "fetch_total"
                /\ <<trace[t][k].metering_point, trace[t][k].obis>> = c

\* a tick has passed a sensor type that is not in the catalog, has gone on
\* to the channel configured after it and has returned
C17_Witness ==
  /\ outcome[1] = "returned"
  /\ \E i \in 1..Len(metering_points) :
       \E j \in 1..(Len(metering_points[i].sensors) - 1) :
         /\ metering_points[i].sensors[j] \notin DOMAIN SENSOR_TYPES
         /\ metering_points[i].sensors[j + 1] \in DOMAIN SENSOR_TYPES
         /\ \E k \in 1..Len(trace[1]) :
              /\ trace[1][k].op = "fetch_total"
              /\ trace[1][k].metering_point = metering_points[i].metering_point
              /\ trace[1][k].obis =
                   SENSOR_TYPES[metering_points[i].sensors[j + 1]].obis_code

\* C18: when a tick is cancelled at a suspension point, the entries it has
\* appended are still stored as appended, and a later complete tick over
\* the same remote data leaves the series it had already brought up to date
\* as they are (every other series it treats as the cancelled tick would
\* have): the stored state is the one the cancelled tick would have reached.
C18_CancelledTickConverges ==
  \A t \in Ticks :
    outcome[t] = "CancelledError" =>
      \A n \in 1..Len(calls[t]) :
        LET id == calls[t][n].statistic_id
            again == update_statistics(store, remote[calls[t][n].channel],
                                       id, now)
        IN /\ \A m \in 1..Len(calls[t][n].statistics) :
                \E i \in 1..Len(store[id]) :
                  store[id][i] = calls[t][n].statistics[m]
           /\ async_add_external_statistics(store[id], again) = store[id]

\* the op of the collaborator call tick t made last, "" before the first
LastOp(t) ==
  IF trace[t] = << >> THEN "" ELSE trace[t][Len(trace[t])].op

\* tick t is about to plan the window of a catalogued channel
AboutToPlan(t) ==
  /\ pc[t] = "loop"
  /\ mpi[t] <= Len(metering_points)
  /\ si[t] <= Len(CurMP(t).sensors)
  /\ CurSensor(t) \in DOMAIN SENSOR_TYPES

\* C19: when the planner returns skip for a channel, the processing of that
\* channel consists of the read of the last stored row and the live-total
\* fetch alone: no hourly fetch, no reconciliation read, no append, and no
\* stored series changes.
C19_SkipLeavesStoreUntouched ==
  [][\A t \in Ticks :
       /\ (/\ AboutToPlan(t)
           /\ skip_window(get_statistics_start_date(store, CurId(t)), now)
           /\ trace'[t] # trace[t])
            => /\ pc'[t] = "total"
               /\ trace'[t] = Append(trace[t], Call("get_last_statistics", t, ""))
               /\ store' = store
               /\ calls' = calls
       /\ (pc[t] = "total" /\ LastOp(t) = "get_last_statistics"
           /\ trace'[t] # trace[t])
            => /\ pc'[t] = "loop"
               /\ si'[t] = si[t] + 1
               /\ trace'[t] = Append(trace[t], Call("fetch_total", t, ""))
               /\ store' = store
               /\ calls' = calls]_vars

\* the planner has returned skip for a series that holds rows
C19_Witness ==
  /\ pc[1] = "total"
  /\ LastOp(1) = "get_last_statistics"
  /\ store[CurId(1)] # << >>

\* C20: when the hourly fetch of a channel returns no points, the fetch is
\* not an error and the processing of the channel goes straight on to the
\* live-total fetch and from there to the next channel: no reconciliation
\* read, no append, no stored series changes; a tick without failing calls
\* ends by returning its map.
C20_EmptyFetchLeavesStoreUntouched ==
  [][\A t \in Ticks :
       /\ (/\ pc[t] = "fetch"
           /\ get_hourly_data(remote[CurChannel(t)],
                              start_date[t], end_date[t]) = << >>
           /\ trace'[t] # trace[t])
            => /\ pc'[t] = "total"
               /\ trace'[t] = Append(trace[t], Call("fetch_hourly", t, ""))
               /\ store' = store
               /\ calls' = calls
       /\ (pc[t] = "total" /\ LastOp(t) = "fetch_hourly"
           /\ trace'[t] # trace[t])
            => /\ pc'[t] = "loop"
               /\ si'[t] = si[t] + 1
               /\ trace'[t] = Append(trace[t], Call("fetch_total", t, ""))
               /\ store' = store
               /\ calls' = calls
       /\ (pc'[t] = "done" /\ pc[t] # "done")
            => outcome'[t] = "returned"]_vars

\* the hourly fetch of a channel has returned no points
C20_Witness ==
  /\ pc[1] = "total"
  /\ LastOp(1) = "fetch_hourly"

\* the characters a to z
LowerLetters == { LowerCase[j] : j \in 1..Len(LowerCase) }

\* what the identity shows of one character of its arguments
CleanChar(c) ==
  IF c \in Digits \cup LowerLetters THEN c
  ELSE IF \E j \in 1..Len(UpperCase) : UpperCase[j] = c
       THEN LowerCase[CHOOSE j \in 1..Len(UpperCase) : UpperCase[j] = c]
       ELSE "_"

\* C21: the statistic identity is deterministic and well-formed: the same
\* pair yields the same text again, the text is leneda:<metering_point>_<code>
\* with every character of both parts lower-cased and, outside [a-z0-9],
\* replaced by '_', so that it holds only lower-case letters, digits,
\* underscores and exactly one colon.
C21_IdentityWellFormed ==
  id_call # << >> =>
    LET mp == id_call[1].metering_point
        obis == id_call[1].obis
        id == id_call[1].statistic_id
    IN /\ id = create_statistic_id(mp, obis)
       /\ Len(id) = Len(LENEDA_DOMAIN) + 1 + Len(mp) + 1 + Len(obis)
       /\ SubSeq(id, 1, 7) = <<"l", "e", "n", "e", "d", "a", ":">>
       /\ \A i \in 1..Len(mp) : id[7 + i] = CleanChar(mp[i])
       /\ id[8 + Len(mp)] = "_"
       /\ \A i \in 1..Len(obis) : id[8 + Len(mp) + i] = CleanChar(obis[i])
       /\ \A i \in 1..Len(id) :
            id[i] \in Digits \cup LowerLetters \cup {"_", ":"}
       /\ Cardinality({ i \in 1..Len(id) : id[i] = ":" }) = 1

\* the identity of an upper-case metering point with a separator and of a
\* catalog code, which holds a colon
C21_Witness ==
  /\ id_call # << >>
  /\ id_call[1].metering_point = <<"L", "-">>
  /\ id_call[1].obis = ELEC_CONSUMPTION_ACTIVE

\* the period-starts of the rows _prepare_statistics emits for the series
\* tick t has fetched and read
EmittedStarts(t) ==
  LET statistics == prepare_statistics(CurId(t), time_series[t],
                                       existing_stats[t])
  IN { statistics[i].start : i \in 1..Len(statistics) }

\* C22: reconciliation discards a fetched point exactly when its
\* period-start is less than or equal to the period-start of the last stored
\* row; every other point is emitted with its value as state, so the hour
\* that starts where the last stored row ends is emitted.
C22_DiscardUpToLastStoredStart ==
  \A t \in Ticks :
    pc[t] = "store" =>
      LET last_start == HighWaterMark(store[CurId(t)])
          statistics == prepare_statistics(CurId(t), time_series[t],
                                           existing_stats[t])
      IN /\ EmittedStarts(t) =
              { time_series[t][i].started_at :
                  i \in { j \in 1..Len(time_series[t]) :
                            \/ last_start = None
                            \/ time_series[t][j].started_at > last_start } }
         /\ \A i \in 1..Len(statistics) :
              \E j \in 1..Len(time_series[t]) :
                /\ time_series[t][j].started_at = statistics[i].start
                /\ time_series[t][j].value = statistics[i].state

\* C23: reconciliation takes its initial running sum and its dedup cutoff
\* from the most recent stored row of the series, the one with the greatest
\* period-start: the running sum starts at that row's cumulative sum, at 0
\* when the series holds no row, also when the series holds several rows.
C23_BaselineFromMostRecentRow ==
  \A t \in Ticks :
    pc[t] = "store" =>
      LET rows == store[CurId(t)]
          last_stats_time == last_stats_time_of(CurId(t), existing_stats[t])
          last_sum == last_sum_of(CurId(t), existing_stats[t])
      IN IF rows = << >>
         THEN last_sum = 0 /\ last_stats_time = None
         ELSE /\ last_sum = rows[Len(rows)].sum
              /\ last_stats_time \in {rows[Len(rows)].start,
                                      rows[Len(rows)].start + Hour}

RECURSIVE SumHours(_, _)
\* the sum of the values a series holds at a set of hours
SumHours(series, hours) ==
  IF hours = {} THEN 0
  ELSE LET h == CHOOSE x \in hours : TRUE
       IN series[h] + SumHours(series, hours \ {h})

\* the year-to-date total of a series at clock h, None without any point
YearToDate(series, h) ==
  LET hours == { g \in PointHours :
                   YearStart(h) <= g /\ g < h /\ series[g] # None }
  IN IF hours = {} THEN None ELSE SumHours(series, hours)

\* the remote codes of the catalogued sensor types item i selects
SelectedCodes(i) ==
  { SENSOR_TYPES[metering_points[i].sensors[k]].obis_code :
      k \in { j \in 1..Len(metering_points[i].sensors) :
                metering_points[i].sensors[j] \in DOMAIN SENSOR_TYPES } }

\* C24: the map a completed tick returns has exactly one entry per
\* configured metering point; each entry holds exactly one value per
\* selected catalogued channel, keyed by the remote code and equal to the
\* year-to-date total of the channel (none without points), whether the
\* window of the channel was skipped, its fetch was empty or rows were
\* appended.
C24_ResultMapRebuilt ==
  \A t \in Ticks :
    outcome[t] = "returned" =>
      /\ DOMAIN returned[t] =
           { metering_points[i].metering_point : i \in 1..Len(metering_points) }
      /\ \A i \in 1..Len(metering_points) :
           LET entry == returned[t][metering_points[i].metering_point]
           IN /\ DOMAIN entry = {"values"}
              /\ DOMAIN entry.values = SelectedCodes(i)
              /\ \A code \in SelectedCodes(i) :
                   entry.values[code] =
                     YearToDate(
                       remote[<<metering_points[i].metering_point, code>>],
                       now)

\* a completed tick that skipped one channel and appended to none; the
\* total of the skipped channel is a number
C24_Witness ==
  /\ outcome[1] = "returned"
  /\ calls[1] = << >>
  /\ \E k \in 1..(Len(trace[1]) - 1) :
       /\ trace[1][k].op = "get_last_statistics"
       /\ trace[1][k + 1].op = "fetch_total"
       /\ returned[1][trace[1][k].metering_point].values[trace[1][k].obis] # None

\* the place of a collaborator call in the processing of one channel
StepRank(op) ==
  CASE op = "get_last_statistics" -> 1
    [] op = "fetch_hourly" -> 2
    [] op = "statistics_during_period" -> 3
    [] op = "add_external_statistics" -> 4
    [] op = "fetch_total" -> 5

\* the places <<i, j>> of the catalogued sensor types in the configuration
Places ==
  UNION { { <<i, j>> :
              j \in { k \in 1..Len(metering_points[i].sensors) :
                        metering_points[i].sensors[k] \in DOMAIN SENSOR_TYPES } } :
          i \in 1..Len(metering_points) }

\* the place of the channel a trace entry is made for
PlaceOf(e) ==
  CHOOSE p \in Places :
    /\ metering_points[p[1]].metering_point = e.metering_point
    /\ SENSOR_TYPES[metering_points[p[1]].sensors[p[2]]].obis_code = e.obis

\* place p comes before place q in configured order
PlaceBefore(p, q) == p[1] < q[1] \/ (p[1] = q[1] /\ p[2] < q[2])

\* C25: within a tick the collaborator calls are strictly sequential: the
\* channels are handled in configured order, metering point after metering
\* point, the calls of one channel come in the order plan window, hourly
\* fetch, read of the stored rows, append, live-total fetch, and the first
\* call of the next channel follows the returned live-total fetch of the
\* channel before it.
C25_SequentialProcessing ==
  \A t \in Ticks :
    /\ trace[t] # << >> =>
         /\ trace[t][1].op = "get_last_statistics"
         /\ \A p \in Places : ~PlaceBefore(p, PlaceOf(trace[t][1]))
    /\ \A k \in 1..(Len(trace[t]) - 1) :
         LET e == trace[t][k]
             f == trace[t][k + 1]
         IN /\ e.raised = ""
            /\ IF e.op = "fetch_total"
               THEN /\ f.op = "get_last_statistics"
                    /\ PlaceBefore(PlaceOf(e), PlaceOf(f))
                    /\ \A p \in Places :
                         ~(PlaceBefore(PlaceOf(e), p) /\ PlaceBefore(p, PlaceOf(f)))
               ELSE /\ PlaceOf(f) = PlaceOf(e)
                    /\ StepRank(f.op) > StepRank(e.op)

\* a tick that has made the five calls of its first channel and the first
\* call of the second
C25_Witness ==
  /\ Len(trace[1]) >= 6
  /\ \A k \in 1..5 : StepRank(trace[1][k].op) = k
  /\ trace[1][6].op = "get_last_statistics"
  /\ PlaceOf(trace[1][6]) # PlaceOf(trace[1][1])

\* the map a tick returns, as a function of the configuration, the remote
\* data and the clock
ResultOf(mps, rem, h) ==
  [mp \in { mps[i].metering_point : i \in 1..Len(mps) } |->
     [values |->
        [code \in { c[2] : c \in { x \in Channels(mps) : x[1] = mp } } |->
           get_current_total(rem[<<mp, code>>], h)]]]

\* C26: a tick is a stateless pass: what it appends and the map it returns
\* are functions of the configuration, the remote data, the stored
\* statistics and the clock; the map produced before is no argument, so two
\* coordinators that differ in that map alone append the same entries and
\* return the same map.
C26_StatelessPass ==
  [][/\ store' # store => \E t \in Ticks : pc[t] = "store" /\ pc'[t] # "store"
     /\ \A t \in Ticks :
       /\ (pc[t] = "store" /\ pc'[t] # "store") =>
            LET statistics == update_statistics(store, remote[CurChannel(t)],
                                                CurId(t), now)
            IN /\ store' = [store EXCEPT ![CurId(t)] =
                              async_add_external_statistics(@, statistics)]
               /\ IF statistics = << >> THEN calls'[t] = calls[t]
                  ELSE /\ Len(calls'[t]) = Len(calls[t]) + 1
                       /\ calls'[t][Len(calls'[t])].statistics = statistics
                       /\ calls'[t][Len(calls'[t])].statistic_id = CurId(t)
       /\ (outcome[t] # "returned" /\ outcome'[t] = "returned") =>
            returned'[t] = ResultOf(metering_points, remote, now)]_vars

\* a tick that appended and returned a map other than the map produced
\* before it
C26_Witness ==
  /\ outcome[1] = "returned"
  /\ calls[1] # << >>
  /\ exposed # << >>
  /\ exposed[1] # returned[1]

\* C30: in the user step a config entry is created if and only if the
\* credential probe returns a result other than FAILURE (SUCCESS or
\* UNKNOWN), and in the reauthentication step the stored API token is
\* replaced by the submitted one in just that case; a FAILURE result
\* re-shows the form with the unauthorized error, a forbidden exception
\* re-shows it with the forbidden error, and then no entry is created and
\* no stored token changes.
C30_EntryIffProbeNotFailure ==
  [][\A f \in FlowIds :
       (/\ flows[f].handler = "config"
        /\ InProgress(f)
        /\ flows'[f] # flows[f]) =>
         LET step == flows'[f]
             accepted == step.probe \in {"SUCCESS", "UNKNOWN"}
         IN /\ step.source = "user" =>
                 /\ (DOMAIN config_entries' # DOMAIN config_entries) <=> accepted
                 /\ accepted =>
                      /\ step.type = "create_entry"
                      /\ step.energy_id \notin DOMAIN config_entries
                      /\ config_entries' =
                           (step.energy_id :>
                              [api_token |-> step.api_token,
                               subentries |-> << >>]) @@ config_entries
                 /\ ~accepted => config_entries' = config_entries
            /\ step.source = "reauth" =>
                 IF accepted
                 THEN /\ step.type = "abort"
                      /\ config_entries' =
                           [config_entries EXCEPT
                              ![step.entry].api_token = step.api_token]
                 ELSE config_entries' = config_entries
            /\ step.probe = "FAILURE" =>
                 /\ step.type = "form"
                 /\ step.step_id = flows[f].step_id
                 /\ step.errors = "unauthorized"
            /\ step.probe = "ForbiddenException" =>
                 /\ step.type = "form"
                 /\ step.step_id = flows[f].step_id
                 /\ step.errors = "forbidden"]_vars

\* a reauthentication that replaced the token after an UNKNOWN probe
\* result, beside a user flow whose form is re-shown after a forbidden
\* exception
C30_Witness ==
  /\ flows[1].handler = "config"
  /\ flows[1].source = "reauth"
  /\ flows[1].reason = "reauth_successful"
  /\ flows[1].probe = "UNKNOWN"
  /\ config_entries[flows[1].entry].api_token = "t2"
  /\ Shows(2, "config", "form", "user")
  /\ flows[2].errors = "forbidden"

\* C27: distinct (metering point, remote code) pairs of one installation
\* have distinct statistic identities: no two channels a coordinator is
\* configured with address the same stored series.
C27_DistinctChannelsDistinctIds ==
  \A e \in DOMAIN config_entries :
    LET mps == initialize_metering_points(config_entries[e].subentries, << >>)
    IN \A c, d \in Channels(mps) :
         c # d => create_statistic_id(c[1], c[2]) # create_statistic_id(d[1], d[2])

\* the metering point a subentry holds
MeteringPointOf(s) == config_entries[s[1]].subentries[s[2]].metering_point

\* C28: whatever metering-point subentry flows have run, several at once
\* included, no two subentries of all the config entries hold the same
\* metering point; the flow that aborts with duplicate_metering_point has
\* made no remote call and created no subentry.
C28_NoDuplicateMeteringPoint ==
  /\ \A s, u \in AllSubentries :
       s # u => MeteringPointOf(s) # MeteringPointOf(u)
  /\ \A f \in FlowIds :
       (/\ flows[f].handler = "subentry"
        /\ flows[f].type = "abort"
        /\ flows[f].reason = "duplicate_metering_point") => ~flows[f].called

\* C29: every subentry the flow creates or reconfigures has a non-empty list
\* of sensors: an entry is created only by the manual step on a non-empty
\* selection, also after probing; an empty selection submitted in the manual
\* or the reconfigure step re-shows the form with select_at_least_one and
\* leaves the stored configuration as it is.
C29_SensorsNeverEmpty ==
  [][/\ \A e \in DOMAIN config_entries' :
          \A i \in 1..Len(config_entries'[e].subentries) :
            config_entries'[e].subentries[i].sensors # << >>
     /\ \A f \in FlowIds :
          (flows[f].handler = "subentry" /\ flows'[f] # flows[f]) =>
            /\ flows'[f].type = "create_entry" =>
                 /\ Shows(f, "subentry", "form", "manual")
                 /\ flows'[f].submitted # << >>
                 /\ config_entries' =
                      [config_entries EXCEPT ![flows[f].entry].subentries =
                         Append(@, [metering_point |-> flows[f].metering_point,
                                    sensors |-> flows'[f].submitted])]
            /\ (\/ Shows(f, "subentry", "form", "manual")
                \/ Shows(f, "subentry", "form", "configure_sensors")) =>
                 IF flows'[f].submitted = << >>
                 THEN /\ flows'[f].type = "form"
                      /\ flows'[f].step_id = flows[f].step_id
                      /\ flows'[f].errors = "select_at_least_one"
                      /\ config_entries' = config_entries
                 ELSE flows'[f].type \in {"create_entry", "abort"}
            /\ (Shows(f, "subentry", "form", "configure_sensors")
                /\ flows'[f].submitted # << >>) =>
                 config_entries' =
                   [config_entries EXCEPT
                      ![flows[f].entry].subentries[flows[f].subentry].sensors =
                        flows'[f].submitted]]_vars

\* a metering point is registered; a reconfiguration and a manual step after
\* probing are both re-shown with the error
C29_Witness ==
  /\ AllSubentries # {}
  /\ Shows(1, "subentry", "form", "configure_sensors")
  /\ flows[1].errors = "select_at_least_one"
  /\ Shows(2, "subentry", "form", "manual")
  /\ flows[2].errors = "select_at_least_one"
  /\ flows[2].selected_sensors # << >>

====
